---- MODULE Spec2Model ----
\* Region capture (InitialScan) and the two refinement overloads (NextScan) of
\* memory_scanner, modelled step by step against an arbitrary target process.
EXTENDS Integers, Sequences, FiniteSets, TLC

\* ---------------------------------------------------------------- bounds
\* Size of the modelled target address space: addresses are 0 .. AddrLimit-1.
AddrLimit == 4

\* ------------------------------------------------------ program constants
\* sizeof(T): the element width of the scan (a 16 bit T).
W == 2
MEM_COMMIT == 4096
MEM_RESERVE == 8192
PAGE_READONLY == 2
PAGE_READWRITE == 4
PAGE_EXECUTE_READWRITE == 64
PAGE_GUARD_READWRITE == 260
ERROR_INVALID_PARAMETER == 87
ERROR_PARTIAL_COPY == 299
ERROR_NOACCESS == 998
ERROR_ACCESS_DENIED == 5
\* The value the example's filter compares against (user_value).
user_value == 5

\* Byte values the target may hold at an address.
Bytes == {0, 5}
States == {MEM_COMMIT, MEM_RESERVE}
Protects == {PAGE_READONLY, PAGE_READWRITE, PAGE_EXECUTE_READWRITE, PAGE_GUARD_READWRITE}
\* The filters a caller passes as keep_if.
Filters == {"equals", "changed"}

VARIABLES
    pc,               \* where the caller / the running call is
    call,             \* the call in progress or the one that ended last
    error,            \* the exception the last call ended with, or "none"
    has_session,      \* the caller holds a vector returned by InitialScan
    regions,          \* the caller's std::vector<MemoryRegion>
    valid_addresses,  \* the caller's std::vector<IntPtr>
    keep_if,          \* the filter passed to the running NextScan
    address,          \* InitialScan: the query cursor
    out_regions,      \* InitialScan: the local vector being built
    found_addresses,  \* NextScan (unrestricted): the local result vector
    r, a,             \* NextScan: region cursor, address cursor
    new_size_r,       \* NextScan: number of regions kept so far
    new_size_a,       \* NextScan (restricted): number of addresses kept so far
    new_region,       \* NextScan (restricted): the freshly read region
    found_at_least_one_valid_address,
    pre_regions,      \* history: regions as passed to the running call
    pre_valid,        \* history: valid_addresses as passed to the running call
    reads,            \* history: ReadProcessMemory results of the running call
    queried,          \* history: VirtualQueryEx results of the running call
    baseline,         \* history: (base, bytes) read by the last call that returned
    object,           \* the caller's MemoryObject<T>: address and the bytes of value
    preceding         \* history: the call and filter that returned just before
                      \* the running restricted NextScan, or <<>>

vars == <<pc, call, error, has_session, regions, valid_addresses, keep_if, address,
          out_regions, found_addresses, r, a, new_size_r, new_size_a, new_region,
          found_at_least_one_valid_address, pre_regions, pre_valid, reads, queried,
          baseline, object, preceding>>

\* ------------------------------------------------------------ data model
NoRegion == [base_address |-> 0, length |-> 0, data |-> <<>>]

Range(v) == {v[i] : i \in DOMAIN v}

\* No MemoryObject exists.
NoObject == [address |-> 0, value |-> <<>>]

Zeros(n) == [k \in 1..n |-> 0]

\* Mutation: the end of the range compared with <= instead of <.
ContainsAddress_Inclusive(region, addr) ==
    addr >= region.base_address /\ addr <= region.base_address + region.length

ContainsAddress(region, addr) ==
    addr >= region.base_address /\ addr < region.base_address + region.length

\* regions.size() / sizeof(T) slots; the buffer reinterpreted as an array of T.
SlotCount(length) == length \div W

RECURSIVE LittleEndian(_, _, _)
LittleEndian(data, first, n) ==
    IF n = 0 THEN 0 ELSE data[first] + 256 * LittleEndian(data, first + 1, n - 1)

\* ptr[i] for ptr = reinterpret_cast<const T *>(data), i within the buffer.
SlotValue(data, i) == LittleEndian(data, i * W + 1, W)

\* Mutation: the slot index is not scaled by sizeof(T).
SlotAddress_Unscaled(base_address, i) == base_address + i

SlotAddress(base_address, i) == base_address + i * W

\* Mutation: the byte offset is not divided by sizeof(T).
TranslatedIndex_Unscaled(addr, base_address) == addr - base_address

TranslatedIndex(addr, base_address) == (addr - base_address) \div W

\* Mutation: the equality filter looks at the previous value.
ApplyFilter_OnPrevious(f, old, new) ==
    IF f = "equals" THEN old = user_value ELSE old # new

\* The FilterFn instances: (previous value, current value) -> keep.
ApplyFilter(f, old, new) ==
    IF f = "equals" THEN new = user_value ELSE old # new

\* Mutation: the kept element is swapped with the first element.
SwapToFront_First(v, new_size, i) ==
    IF i # 0 THEN [v EXCEPT ![1] = v[i + 1], ![i + 1] = v[1]] ELSE v

\* Mutation: the kept element is copied to the keep slot, not swapped.
SwapToFront_Copied(v, new_size, i) == [v EXCEPT ![new_size + 1] = v[i + 1]]

\* Mutation: the swap is left out.
SwapToFront_Skipped(v, new_size, i) == v

\* std::swap(v[new_size], v[i]) when new_size != i (indices are 0-based).
SwapToFront(v, new_size, i) ==
    IF new_size # i
    THEN [v EXCEPT ![new_size + 1] = v[i + 1], ![i + 1] = v[new_size + 1]]
    ELSE v

\* Mutation: the truncation keeps one element too many.
Resize_OneMore(v, n) == SubSeq(v, 1, IF n < Len(v) THEN n + 1 ELSE n)

\* Mutation: the truncation is left out.
Resize_Skipped(v, n) == v

\* v.resize(n) for n <= v.size().
Resize(v, n) == SubSeq(v, 1, n)

\* ------------------------------------------------------ host primitives
\* ReadProcessMemory(process, base, buffer, len, &bytes_read): the target's
\* bytes are whatever the target holds at the time of the call.
ReadProcessMemory(len) ==
    {[ok |-> TRUE, ec |-> 0, bytes_read |-> len, data |-> d] : d \in [1..len -> Bytes]}
    \cup UNION {{[ok |-> FALSE, ec |-> ERROR_PARTIAL_COPY, bytes_read |-> n, data |-> d] :
                    d \in {e \in [1..len -> Bytes] : \A k \in (n + 1)..len : e[k] = 0}} :
                 n \in 0..(len - 1)}
    \cup {[ok |-> FALSE, ec |-> ERROR_NOACCESS, bytes_read |-> 0, data |-> Zeros(len)]}

\* VirtualQueryEx(process, address, &mem_info, sizeof(mem_info)): the region
\* that starts at the cursor, the end of the address space, or a failure.
VirtualQueryEx(addr) ==
    {[size |-> 0, ec |-> ERROR_ACCESS_DENIED, BaseAddress |-> addr, RegionSize |-> 0,
      State |-> 0, Protect |-> 0]}
    \cup (IF addr >= AddrLimit
          THEN {[size |-> 0, ec |-> ERROR_INVALID_PARAMETER, BaseAddress |-> addr,
                 RegionSize |-> 0, State |-> 0, Protect |-> 0]}
          ELSE {[size |-> 1, ec |-> 0, BaseAddress |-> addr, RegionSize |-> n,
                 State |-> s, Protect |-> p] :
                    n \in 1..(AddrLimit - addr), s \in States, p \in Protects})

\* Mutation: a failed read never throws.
ReadRegionData_NoThrow(memory_region, rpm) ==
    [thrown |-> FALSE,
     bytes_read |-> rpm.bytes_read,
     memory_region |-> [memory_region EXCEPT !.data = rpm.data]]

\* ReadRegionData: allocates a zeroed buffer, reads into it, throws unless the
\* read succeeded or only signalled a partial copy, and returns bytes_read.
ReadRegionData(memory_region, rpm) ==
    [thrown |-> (~rpm.ok /\ rpm.ec # ERROR_PARTIAL_COPY),
     bytes_read |-> rpm.bytes_read,
     memory_region |-> [memory_region EXCEPT !.data = rpm.data]]

ReadRecord(memory_region, rpm) ==
    [base_address |-> memory_region.base_address, length |-> memory_region.length,
     ok |-> rpm.ok, ec |-> rpm.ec, bytes_read |-> rpm.bytes_read, data |-> rpm.data]

\* The bytes a call read for the regions it left in the session s.
Baseline(rs, s) ==
    {<<rs[i].base_address, rs[i].data>> :
        i \in {j \in DOMAIN rs : \E k \in DOMAIN s : s[k].base_address = rs[j].base_address}}

\* Mutation: the kept region keeps its old bytes.
MoveAssign_KeepOld(old_region, fresh_region) == old_region

\* regions[r] = std::move(new_region);
MoveAssign(old_region, fresh_region) == fresh_region

\* ----------------------------------------------------------------- Init
Init ==
    /\ pc = "idle"
    /\ call = "none"
    /\ error = "none"
    /\ has_session = FALSE
    /\ regions = <<>>
    /\ valid_addresses = <<>>
    /\ keep_if = "equals"
    /\ address = 0
    /\ out_regions = <<>>
    /\ found_addresses = <<>>
    /\ r = 0
    /\ a = 0
    /\ new_size_r = 0
    /\ new_size_a = 0
    /\ new_region = NoRegion
    /\ found_at_least_one_valid_address = FALSE
    /\ pre_regions = <<>>
    /\ pre_valid = <<>>
    /\ reads = <<>>
    /\ queried = <<>>
    /\ baseline = {}
    /\ object = NoObject
    /\ preceding = <<>>

\* ---------------------------------------------------------- InitialScan
\* The caller drops whatever it held and calls InitialScan(process).
CallInitialScan ==
    /\ pc = "idle"
    /\ pc' = "InitialScan"
    /\ call' = "InitialScan"
    /\ error' = "none"
    /\ has_session' = FALSE
    /\ regions' = <<>>
    /\ valid_addresses' = <<>>
    /\ address' = 0
    /\ out_regions' = <<>>
    /\ pre_regions' = <<>>
    /\ pre_valid' = <<>>
    /\ reads' = <<>>
    /\ queried' = <<>>
    /\ UNCHANGED <<keep_if, found_addresses, r, a, new_size_r, new_size_a, new_region,
                   found_at_least_one_valid_address>>
    /\ baseline' = {}
    /\ object' = NoObject
    /\ preceding' = <<>>

IsEndOfAddressSpace(ec) == ec = ERROR_INVALID_PARAMETER

\* Mutation: the commit state is not looked at.
IsScannable_AnyState(mem_info) ==
    mem_info.Protect = PAGE_READWRITE \/ mem_info.Protect = PAGE_EXECUTE_READWRITE

IsScannable(mem_info) ==
    /\ mem_info.State = MEM_COMMIT
    /\ (mem_info.Protect = PAGE_READWRITE \/ mem_info.Protect = PAGE_EXECUTE_READWRITE)

\* Mutation: the byte count returned by ReadRegionData is not compared.
BytesReadDiffers_Ignored(bytes_read, RegionSize) == FALSE

BytesReadDiffers(bytes_read, RegionSize) == bytes_read # RegionSize

\* Mutation: the cursor is assigned the size instead of advanced by it.
Advance_Assigned(cursor, RegionSize) == RegionSize

\* address += mem_info.RegionSize;
Advance(cursor, RegionSize) == cursor + RegionSize

\* One iteration of the for (;;) loop of InitialScan.
InitialScanStep ==
    /\ pc = "InitialScan"
    /\ \E mem_info \in VirtualQueryEx(address) :
        /\ queried' = Append(queried, mem_info)
        /\ IF mem_info.size = 0
           THEN IF IsEndOfAddressSpace(mem_info.ec)
                THEN \* break; return regions
                     /\ pc' = "idle"
                     /\ regions' = out_regions
                     /\ has_session' = TRUE
                     /\ address' = 0
                     /\ out_regions' = <<>>
                     /\ UNCHANGED <<error, reads>>
                ELSE \* throw: the local vector is destroyed
                     /\ pc' = "idle"
                     /\ error' = "QueryFailure"
                     /\ address' = 0
                     /\ out_regions' = <<>>
                     /\ UNCHANGED <<regions, has_session, reads>>
           ELSE /\ IF ~IsScannable(mem_info)
                   THEN /\ address' = Advance(address, mem_info.RegionSize)
                        /\ UNCHANGED <<pc, error, regions, has_session, out_regions, reads>>
                   ELSE \E rpm \in ReadProcessMemory(mem_info.RegionSize) :
                        LET region == [base_address |-> mem_info.BaseAddress,
                                       length |-> mem_info.RegionSize, data |-> <<>>]
                            rd == ReadRegionData(region, rpm)
                        IN  /\ reads' = Append(reads, ReadRecord(region, rpm))
                            /\ UNCHANGED <<regions, has_session>>
                            /\ IF rd.thrown
                               THEN /\ pc' = "idle"
                                    /\ error' = "ReadFailure"
                                    /\ address' = 0
                                    /\ out_regions' = <<>>
                               ELSE IF BytesReadDiffers(rd.bytes_read, mem_info.RegionSize)
                               THEN /\ pc' = "idle"
                                    /\ error' = "ShortRead"
                                    /\ address' = 0
                                    /\ out_regions' = <<>>
                               ELSE /\ address' = Advance(address, mem_info.RegionSize)
                                    /\ out_regions' = Append(out_regions, rd.memory_region)
                                    /\ UNCHANGED <<pc, error>>
    /\ UNCHANGED <<call, valid_addresses, keep_if, found_addresses, r, a, new_size_r,
                   new_size_a, new_region, found_at_least_one_valid_address,
                   pre_regions, pre_valid>>
    /\ baseline' = IF pc' = "idle" /\ has_session' THEN Baseline(reads', regions') ELSE baseline
    /\ UNCHANGED object
    /\ UNCHANGED preceding

\* ------------------------------------------------ NextScan (unrestricted)
CallNextScan ==
    /\ pc = "idle"
    /\ has_session
    /\ error = "none"
    /\ \E f \in Filters : keep_if' = f
    /\ pc' = "NextScan"
    /\ call' = "NextScan"
    /\ found_addresses' = <<>>
    /\ new_size_r' = 0
    /\ r' = 0
    /\ pre_regions' = regions
    /\ pre_valid' = valid_addresses
    /\ reads' = <<>>
    /\ queried' = <<>>
    /\ UNCHANGED <<error, has_session, regions, valid_addresses, address, out_regions, a,
                   new_size_a, new_region, found_at_least_one_valid_address>>
    /\ UNCHANGED baseline
    /\ object' = NoObject
    /\ preceding' = <<>>

\* for (i = 0; i < count; ++i) if (keep_if(old_ptr[i], new_ptr[i])) push_back(...)
RECURSIVE SlotLoop(_, _, _, _, _, _, _)
SlotLoop(i, count, old_data, new_data, base_address, f, acc) ==
    IF i >= count THEN acc
    ELSE SlotLoop(i + 1, count, old_data, new_data, base_address, f,
                  IF ApplyFilter(f, SlotValue(old_data, i), SlotValue(new_data, i))
                  THEN Append(acc, SlotAddress(base_address, i))
                  ELSE acc)

\* One iteration of the for loop over regions.
NextScanStep ==
    /\ pc = "NextScan"
    /\ r < Len(regions)
    /\ LET old_region == regions[r + 1]
           blank == [base_address |-> old_region.base_address,
                     length |-> old_region.length, data |-> <<>>]
       IN \E rpm \in ReadProcessMemory(blank.length) :
            LET rd == ReadRegionData(blank, rpm)
                matched == SlotLoop(0, SlotCount(old_region.length), old_region.data,
                                    rd.memory_region.data, blank.base_address, keep_if, <<>>)
            IN  /\ reads' = Append(reads, ReadRecord(blank, rpm))
                /\ IF rd.thrown
                   THEN \* throw: regions stays as compacted so far, the locals die
                        /\ pc' = "idle"
                        /\ error' = "ReadFailure"
                        /\ found_addresses' = <<>>
                        /\ r' = 0
                        /\ new_size_r' = 0
                        /\ UNCHANGED regions
                   ELSE /\ found_addresses' = found_addresses \o matched
                        /\ IF matched # <<>>
                           THEN /\ regions' = SwapToFront(
                                        [regions EXCEPT ![r + 1] = MoveAssign(@, rd.memory_region)],
                                        new_size_r, r)
                                /\ new_size_r' = new_size_r + 1
                           ELSE UNCHANGED <<regions, new_size_r>>
                        /\ r' = r + 1
                        /\ UNCHANGED <<pc, error>>
    /\ UNCHANGED <<call, has_session, valid_addresses, keep_if, address, out_regions, a,
                   new_size_a, new_region, found_at_least_one_valid_address,
                   pre_regions, pre_valid, queried>>
    /\ UNCHANGED baseline
    /\ UNCHANGED object
    /\ UNCHANGED preceding

\* regions.resize(new_size); return valid_addresses;
NextScanReturn ==
    /\ pc = "NextScan"
    /\ ~(r < Len(regions))
    /\ regions' = Resize(regions, new_size_r)
    /\ valid_addresses' = found_addresses
    /\ pc' = "idle"
    /\ found_addresses' = <<>>
    /\ r' = 0
    /\ new_size_r' = 0
    /\ UNCHANGED <<call, error, has_session, keep_if, address, out_regions,
                   a, new_size_a, new_region,
                   found_at_least_one_valid_address, pre_regions, pre_valid, reads,
                   queried>>
    /\ baseline' = Baseline(reads, regions')
    /\ UNCHANGED object
    /\ UNCHANGED preceding

\* -------------------------------------------------- NextScan (restricted)
\* Between calls the caller owns valid_addresses and may drop an address it
\* is no longer interested in; the vector stays sorted.
RemoveAt(v, i) == SubSeq(v, 1, i - 1) \o SubSeq(v, i + 1, Len(v))

CallerDropsAddress ==
    /\ pc = "idle"
    /\ has_session
    /\ error = "none"
    /\ \E i \in 1..Len(valid_addresses) : valid_addresses' = RemoveAt(valid_addresses, i)
    /\ call' = "edit"
    /\ pre_regions' = <<>>
    /\ pre_valid' = <<>>
    /\ reads' = <<>>
    /\ queried' = <<>>
    /\ UNCHANGED <<pc, error, has_session, regions, keep_if, address, out_regions,
                   found_addresses, r, a, new_size_r, new_size_a, new_region,
                   found_at_least_one_valid_address>>
    /\ UNCHANGED baseline
    /\ object' = NoObject
    /\ preceding' = <<>>

CallNextScanR ==
    /\ pc = "idle"
    /\ has_session
    /\ error = "none"
    /\ \E f \in Filters : keep_if' = f
    /\ pc' = "NextScanR"
    /\ call' = "NextScanR"
    /\ new_size_r' = 0
    /\ new_size_a' = 0
    /\ r' = 0
    /\ a' = 0
    /\ pre_regions' = regions
    /\ pre_valid' = valid_addresses
    /\ reads' = <<>>
    /\ queried' = <<>>
    /\ UNCHANGED <<error, has_session, regions, valid_addresses, address, out_regions,
                   found_addresses, new_region, found_at_least_one_valid_address>>
    /\ UNCHANGED baseline
    /\ object' = NoObject
    /\ preceding' = IF call \in {"NextScan", "NextScanR"} THEN <<call, keep_if>> ELSE <<>>

InLoop == r < Len(regions) /\ a < Len(valid_addresses)

\* if (!regions[r].ContainsAddress(valid_addresses[a])) { ++r; continue; }
NextScanRSkip ==
    /\ pc = "NextScanR"
    /\ InLoop
    /\ ~ContainsAddress(regions[r + 1], valid_addresses[a + 1])
    /\ r' = r + 1
    /\ UNCHANGED <<pc, call, error, has_session, regions, valid_addresses, keep_if,
                   address, out_regions, found_addresses, a, new_size_r, new_size_a,
                   new_region, found_at_least_one_valid_address, pre_regions, pre_valid,
                   reads, queried>>
    /\ UNCHANGED baseline
    /\ UNCHANGED object
    /\ UNCHANGED preceding

\* The region holds the address under the cursor: read it afresh.
NextScanRRead ==
    /\ pc = "NextScanR"
    /\ InLoop
    /\ ContainsAddress(regions[r + 1], valid_addresses[a + 1])
    /\ LET blank == [base_address |-> regions[r + 1].base_address,
                     length |-> regions[r + 1].length, data |-> <<>>]
       IN \E rpm \in ReadProcessMemory(blank.length) :
            LET rd == ReadRegionData(blank, rpm)
            IN  /\ reads' = Append(reads, ReadRecord(blank, rpm))
                /\ IF rd.thrown
                   THEN \* throw: both vectors stay as compacted so far
                        /\ pc' = "idle"
                        /\ error' = "ReadFailure"
                        /\ r' = 0
                        /\ a' = 0
                        /\ new_size_r' = 0
                        /\ new_size_a' = 0
                        /\ UNCHANGED new_region
                   ELSE /\ pc' = "NextScanR_do"
                        /\ new_region' = rd.memory_region
                        /\ UNCHANGED <<error, r, a, new_size_r, new_size_a>>
    /\ found_at_least_one_valid_address' = FALSE
    /\ UNCHANGED <<call, has_session, regions, valid_addresses, keep_if, address,
                   out_regions, found_addresses, pre_regions, pre_valid, queried>>
    /\ UNCHANGED baseline
    /\ UNCHANGED object
    /\ UNCHANGED preceding

\* keep_if(old_ptr[translated_index], new_ptr[translated_index]); an index
\* outside the buffers reads whatever lies behind them.
FilterOutcomes(f, old_data, new_data, translated_index, count) ==
    IF translated_index >= 0 /\ translated_index < count
    THEN {ApplyFilter(f, SlotValue(old_data, translated_index),
                         SlotValue(new_data, translated_index))}
    ELSE BOOLEAN

\* One iteration of the do ... while over the addresses inside regions[r].
NextScanRFilter ==
    /\ pc = "NextScanR_do"
    /\ LET region == regions[r + 1]
           count == SlotCount(region.length)
           translated_index == TranslatedIndex(valid_addresses[a + 1], region.base_address)
       IN \E keep \in FilterOutcomes(keep_if, region.data, new_region.data,
                                     translated_index, count) :
            /\ IF keep
               THEN /\ found_at_least_one_valid_address' = TRUE
                    /\ valid_addresses' = SwapToFront(valid_addresses, new_size_a, a)
                    /\ new_size_a' = new_size_a + 1
               ELSE UNCHANGED <<found_at_least_one_valid_address, valid_addresses,
                                new_size_a>>
            /\ a' = a + 1
            /\ pc' = IF a' < Len(valid_addresses')
                        /\ ContainsAddress(region, valid_addresses'[a' + 1])
                     THEN "NextScanR_do"
                     ELSE "NextScanR_keep"
    /\ UNCHANGED <<call, error, has_session, regions, keep_if, address, out_regions,
                   found_addresses, r, new_size_r, new_region, pre_regions, pre_valid,
                   reads, queried>>
    /\ UNCHANGED baseline
    /\ UNCHANGED object
    /\ UNCHANGED preceding

\* After the do ... while: keep or discard regions[r], then ++r.
NextScanRKeep ==
    /\ pc = "NextScanR_keep"
    /\ IF found_at_least_one_valid_address
       THEN /\ regions' = SwapToFront([regions EXCEPT ![r + 1] = MoveAssign(@, new_region)],
                                      new_size_r, r)
            /\ new_size_r' = new_size_r + 1
       ELSE UNCHANGED <<regions, new_size_r>>
    /\ r' = r + 1
    /\ new_region' = NoRegion
    /\ found_at_least_one_valid_address' = FALSE
    /\ pc' = "NextScanR"
    /\ UNCHANGED <<call, error, has_session, valid_addresses, keep_if, address,
                   out_regions, found_addresses, a, new_size_a, pre_regions, pre_valid,
                   reads, queried>>
    /\ UNCHANGED baseline
    /\ UNCHANGED object
    /\ UNCHANGED preceding

\* regions.resize(new_size_r); valid_addresses.resize(new_size_a);
NextScanRReturn ==
    /\ pc = "NextScanR"
    /\ ~InLoop
    /\ regions' = Resize(regions, new_size_r)
    /\ valid_addresses' = Resize(valid_addresses, new_size_a)
    /\ pc' = "idle"
    /\ r' = 0
    /\ a' = 0
    /\ new_size_r' = 0
    /\ new_size_a' = 0
    /\ UNCHANGED <<call, error, has_session, keep_if, address, out_regions,
                   found_addresses, new_region, found_at_least_one_valid_address,
                   pre_regions, pre_valid, reads, queried>>
    /\ baseline' = Baseline(reads, regions')
    /\ UNCHANGED object
    /\ UNCHANGED preceding

\* ------------------------------------------------- MemoryObject<T>::ReRead
\* Mutation: the byte count is not compared after a tolerated partial copy.
ReReadOutcome_CountIgnored(rpm) ==
    IF ~rpm.ok /\ rpm.ec # ERROR_PARTIAL_COPY THEN "ReadFailure" ELSE "none"

\* The exception ReRead ends with, by what ReadProcessMemory reported.
ReReadOutcome(rpm) ==
    IF ~rpm.ok /\ rpm.ec # ERROR_PARTIAL_COPY THEN "ReadFailure"
    ELSE IF rpm.bytes_read # W THEN "ShortRead"
    ELSE "none"

\* ReadProcessMemory writes the bytes it copied straight into value.
Overwrite(old_value, rpm) ==
    [k \in 1..W |-> IF k <= rpm.bytes_read THEN rpm.data[k] ELSE old_value[k]]

\* object.ReRead(process), for an object the caller bound to one of its valid
\* addresses (value is indeterminate until the first read) or read before.
ReRead ==
    /\ pc = "idle"
    /\ has_session
    /\ error = "none"
    /\ \E bound \in IF object = NoObject
                    THEN {[address |-> c, value |-> v] :
                            c \in Range(valid_addresses), v \in [1..W -> Bytes]}
                    ELSE {object} :
       \E rpm \in ReadProcessMemory(W) :
            /\ object' = [bound EXCEPT !.value = Overwrite(@, rpm)]
            /\ error' = ReReadOutcome(rpm)
            /\ reads' = <<ReadRecord([base_address |-> bound.address, length |-> W], rpm)>>
    /\ call' = "ReRead"
    /\ pre_regions' = <<>>
    /\ pre_valid' = <<>>
    /\ queried' = <<>>
    /\ UNCHANGED <<pc, has_session, regions, valid_addresses, keep_if, address,
                   out_regions, found_addresses, r, a, new_size_r, new_size_a,
                   new_region, found_at_least_one_valid_address, baseline>>
    /\ preceding' = <<>>

Next ==
    \/ CallInitialScan
    \/ InitialScanStep
    \/ CallNextScan
    \/ NextScanStep
    \/ NextScanReturn
    \/ CallerDropsAddress
    \/ CallNextScanR
    \/ NextScanRSkip
    \/ NextScanRRead
    \/ NextScanRFilter
    \/ NextScanRKeep
    \/ NextScanRReturn
    \/ ReRead

Spec == Init /\ [][Next]_vars

\* ------------------------------------------------ the example's Run loop
ScanReturned == pc = "idle" /\ error = "none" /\ call \in {"NextScan", "NextScanR"}

\* if (valid_addresses.size() == 0)
NoValidAddress(v) == Len(v) = 0

\* Mutation: the single-address test is left out.
OnlyOneValidAddress_Never(v) == FALSE

\* if (valid_addresses.size() == 1)
OnlyOneValidAddress(v) == Len(v) = 1

Monitoring == pc = "idle" /\ error = "none" /\ call = "ReRead"

\* regions = InitialScan(process): at the start, or after the user answered Y.
RunInitialScan ==
    /\ call = "none" \/ (ScanReturned /\ NoValidAddress(valid_addresses))
    /\ CallInitialScan

\* valid_addresses = DoNextScan(process, regions): current == user_value.
RunDoNextScan ==
    /\ pc = "idle" /\ error = "none" /\ call = "InitialScan"
    /\ CallNextScan
    /\ keep_if' = "equals"

\* DoNextScan(process, regions, valid_addresses) at the end of the inner loop.
RunDoNextScanR ==
    /\ ScanReturned
    /\ ~NoValidAddress(valid_addresses)
    /\ ~OnlyOneValidAddress(valid_addresses)
    /\ CallNextScanR
    /\ keep_if' = "equals"

\* ContinuouslyReadMemoryAddress: the first ReRead, then one every 100 ms.
RunReRead ==
    /\ \/ (/\ ScanReturned
           /\ ~NoValidAddress(valid_addresses)
           /\ OnlyOneValidAddress(valid_addresses))
       \/ Monitoring
    /\ ReRead

\* Run is left: an exception reaches main, the user answers N, or the input
\* ends at one of the prompts.
RunEnds ==
    /\ pc = "idle"
    /\ \/ error # "none"
       \/ ScanReturned /\ NoValidAddress(valid_addresses)
       \/ call = "InitialScan"
       \/ (/\ ScanReturned
           /\ ~NoValidAddress(valid_addresses)
           /\ ~OnlyOneValidAddress(valid_addresses))
    /\ pc' = "exit"
    /\ UNCHANGED <<call, error, has_session, regions, valid_addresses, keep_if, address,
                   out_regions, found_addresses, r, a, new_size_r, new_size_a,
                   new_region, found_at_least_one_valid_address, pre_regions,
                   pre_valid, reads, queried, baseline, object, preceding>>

\* Run passes to the restricted NextScan only what a NextScan returned, where
\* every region holds a candidate: the skip branch (part_001 lines 135-139) is
\* never enabled under Run, which RunNeverSkips states as an invariant of
\* RunSpec, so RunNext has no disjunct for it.
RunNext ==
    \/ RunInitialScan
    \/ InitialScanStep
    \/ RunDoNextScan
    \/ NextScanStep
    \/ NextScanReturn
    \/ RunDoNextScanR
    \/ NextScanRRead
    \/ NextScanRFilter
    \/ NextScanRKeep
    \/ NextScanRReturn
    \/ RunReRead
    \/ RunEnds

RunSpec == Init /\ [][RunNext]_vars

RunNeverSkips == ~ENABLED NextScanRSkip

\* A call that was entered runs on: the code is sequential and every primitive
\* it blocks on returns.
NextScanRRuns ==
    NextScanRSkip \/ NextScanRRead \/ NextScanRFilter \/ NextScanRKeep \/ NextScanRReturn

FairSpec ==
    Init /\ [][Next]_vars /\ WF_vars(InitialScanStep) /\ WF_vars(NextScanRRuns)

\* ------------------------------------------------------------- properties
\* The call named c has returned normally and nothing happened since.
Returned(c) == pc = "idle" /\ call = c /\ error = "none"

StrictlyAscending(v) == \A i, j \in DOMAIN v : i < j => v[i] < v[j]

\* Regions in ascending base order whose byte ranges do not overlap.
SessionOrdered(s) ==
    \A i, j \in DOMAIN s :
        i < j => /\ s[i].base_address < s[j].base_address
                 /\ s[i].base_address + s[i].length <= s[j].base_address

\* Every candidate is a whole, slot-aligned slot of some region of s.
CandidatesInSession(s, v) ==
    \A c \in Range(v) : \E k \in DOMAIN s :
        /\ s[k].base_address <= c
        /\ c + W <= s[k].base_address + s[k].length
        /\ (c - s[k].base_address) % W = 0

AllReadsFull == \A i \in DOMAIN reads : reads[i].ok /\ reads[i].bytes_read = reads[i].length

\* The buffers read during the running call for the region at base b.
BuffersReadAt(b) == {reads[i].data : i \in {j \in DOMAIN reads : reads[j].base_address = b}}

\* Slot i of pre-call region k satisfied the filter during this call.
SlotMatched(k, i) ==
    \E new_data \in BuffersReadAt(pre_regions[k].base_address) :
        ApplyFilter(keep_if, SlotValue(pre_regions[k].data, i), SlotValue(new_data, i))

\* Pre-call region k is still in the session (same base and length).
Survives(k) ==
    \E j \in DOMAIN regions :
        /\ regions[j].base_address = pre_regions[k].base_address
        /\ regions[j].length = pre_regions[k].length

InRange(c, region) ==
    region.base_address <= c /\ c < region.base_address + region.length

\* C1: an unrestricted NextScan whose reads all succeed in full returns exactly
\* the addresses base + i*W of the whole slots i of the pre-call regions for
\* which the filter held on (stored value, value read now), strictly ascending.
C1_UnrestrictedReturnsExactlyMatches ==
    (Returned("NextScan") /\ AllReadsFull) =>
        /\ Range(valid_addresses) =
              UNION {{pre_regions[k].base_address + i * W :
                         i \in {j \in 0..((pre_regions[k].length \div W) - 1) :
                                    SlotMatched(k, j)}} :
                     k \in DOMAIN pre_regions}
        /\ StrictlyAscending(valid_addresses)

C1_Witness ==
    /\ Returned("NextScan")
    /\ AllReadsFull
    /\ Len(valid_addresses) >= 1
    /\ \E k \in DOMAIN pre_regions : pre_regions[k].length % W # 0 /\ Survives(k)

\* C2: a restricted NextScan on an ordered session and an ordered, slot-aligned
\* candidate list, with all reads full, keeps exactly the pre-call candidates
\* whose filter held on (stored value, value read now) at their slot.
C2_RestrictedKeepsExactlyMatches ==
    (/\ Returned("NextScanR")
     /\ AllReadsFull
     /\ SessionOrdered(pre_regions)
     /\ StrictlyAscending(pre_valid)
     /\ CandidatesInSession(pre_regions, pre_valid)) =>
        Range(valid_addresses) =
            {c \in Range(pre_valid) :
                \E k \in DOMAIN pre_regions :
                    /\ InRange(c, pre_regions[k])
                    /\ SlotMatched(k, (c - pre_regions[k].base_address) \div W)}

C2_Witness ==
    /\ Returned("NextScanR")
    /\ AllReadsFull
    /\ Len(pre_valid) = 2
    /\ Len(valid_addresses) = 1
    /\ keep_if = "changed"

\* C3: whenever the caller holds a session after InitialScan or after a NextScan
\* that returned normally, its regions are in strictly ascending base order and
\* their byte ranges do not overlap.
C3_SessionStaysOrdered ==
    (pc = "idle" /\ has_session /\ error = "none") => SessionOrdered(regions)

C3_Witness ==
    /\ Returned("NextScanR")
    /\ Len(pre_regions) = 2
    /\ Len(regions) = 2

\* C4: after a restricted NextScan returns normally the candidate list is
\* strictly ascending (so without duplicates) and holds only addresses that
\* were in it before the call.
C4_CandidatesShrinkOrdered ==
    Returned("NextScanR") =>
        /\ StrictlyAscending(valid_addresses)
        /\ Range(valid_addresses) \subseteq Range(pre_valid)

C4_Witness ==
    /\ Returned("NextScanR")
    /\ Len(pre_valid) = 2
    /\ valid_addresses = <<pre_valid[2]>>

\* C5 as stated: a restricted NextScan called with no candidates leaves the
\* candidate list empty and the session unchanged, and reads nothing.
C5_EmptyCandidatesLeaveSession ==
    (Returned("NextScanR") /\ pre_valid = <<>>) =>
        /\ valid_addresses = <<>>
        /\ regions = pre_regions
        /\ reads = <<>>

\* C5 amended: a restricted NextScan called with no candidates leaves the
\* candidate list empty, reads nothing, and drops every region of the session.
C5_EmptyCandidatesEmptySession ==
    (Returned("NextScanR") /\ pre_valid = <<>>) =>
        /\ valid_addresses = <<>>
        /\ regions = <<>>
        /\ reads = <<>>

C5_Witness ==
    /\ Returned("NextScanR")
    /\ pre_valid = <<>>
    /\ Len(pre_regions) = 2

\* C6: during either NextScan, a region read that obtains fewer bytes than the
\* region's length (the primitive succeeded or signalled only a partial copy)
\* makes the call fail with ShortRead.
C6_RefinementShortReadIsFatal ==
    (/\ call \in {"NextScan", "NextScanR"}
     /\ \E i \in DOMAIN reads :
            /\ reads[i].bytes_read # reads[i].length
            /\ (reads[i].ok \/ reads[i].ec = ERROR_PARTIAL_COPY)) =>
        error = "ShortRead"

\* C7: InitialScan hands a session to the caller only if every query succeeded
\* or reported the end of the address space and every read was full; another
\* query error ends it with QueryFailure, a hard read error with ReadFailure, a
\* short read with ShortRead, and then no session is returned.
C7_CaptureFailsWithoutSession ==
    (pc = "idle" /\ call = "InitialScan") =>
        /\ has_session =>
              /\ error = "none"
              /\ \A i \in DOMAIN queried :
                    queried[i].size # 0 \/ queried[i].ec = ERROR_INVALID_PARAMETER
              /\ \A i \in DOMAIN reads : reads[i].bytes_read = reads[i].length
        /\ (\E i \in DOMAIN queried :
                queried[i].size = 0 /\ queried[i].ec # ERROR_INVALID_PARAMETER) =>
              error = "QueryFailure"
        /\ (\E i \in DOMAIN reads : ~reads[i].ok /\ reads[i].ec # ERROR_PARTIAL_COPY) =>
              error = "ReadFailure"
        /\ (\E i \in DOMAIN reads :
                /\ reads[i].bytes_read < reads[i].length
                /\ (reads[i].ok \/ reads[i].ec = ERROR_PARTIAL_COPY)) =>
              error = "ShortRead"
        /\ error # "none" => (~has_session /\ regions = <<>>)

C7_Witness ==
    /\ pc = "idle"
    /\ call = "InitialScan"
    /\ error = "ShortRead"
    /\ Len(reads) = 2
    /\ reads[2].ec = ERROR_PARTIAL_COPY

\* The regions InitialScan is to keep, by what the query reported.
Reported(q) ==
    /\ q.size # 0
    /\ q.State = MEM_COMMIT
    /\ q.Protect \in {PAGE_READWRITE, PAGE_EXECUTE_READWRITE}

\* C8: a successful InitialScan returns, in enumeration order, exactly the
\* queried regions that are committed and read-write or execute-read-write,
\* each with the reported base and length and a buffer of length bytes that
\* is the one read from the target.
C8_CaptureKeepsExactlyScannable ==
    (Returned("InitialScan") /\ has_session) =>
        LET kept == SelectSeq(queried, Reported)
        IN  /\ Len(regions) = Len(kept)
            /\ Len(reads) = Len(kept)
            /\ \A i \in DOMAIN regions :
                  /\ regions[i].base_address = kept[i].BaseAddress
                  /\ regions[i].length = kept[i].RegionSize
                  /\ Len(regions[i].data) = regions[i].length
                  /\ reads[i].base_address = kept[i].BaseAddress
                  /\ reads[i].bytes_read = kept[i].RegionSize
                  /\ regions[i].data = reads[i].data

C8_Witness ==
    /\ Returned("InitialScan")
    /\ has_session
    /\ Len(regions) = 2
    /\ Len(queried) = 4
    /\ queried[2].Protect = PAGE_GUARD_READWRITE
    /\ queried[2].State = MEM_COMMIT

\* C9: after a restricted NextScan returns normally, a pre-call region is in
\* the session iff some pre-call candidate inside its byte range survived the
\* call, and the session holds no other region.
C9_RestrictedKeepsRegionIffCandidateSurvives ==
    Returned("NextScanR") =>
        /\ \A k \in DOMAIN pre_regions :
              Survives(k) <=>
                  \E c \in Range(pre_valid) :
                      InRange(c, pre_regions[k]) /\ c \in Range(valid_addresses)
        /\ \A j \in DOMAIN regions : \E k \in DOMAIN pre_regions :
              /\ regions[j].base_address = pre_regions[k].base_address
              /\ regions[j].length = pre_regions[k].length

C9_Witness ==
    /\ Returned("NextScanR")
    /\ Len(pre_regions) = 2
    /\ Len(pre_valid) = 1
    /\ InRange(pre_valid[1], pre_regions[2])
    /\ Len(regions) = 1

\* C10: after an unrestricted NextScan returns normally, a pre-call region is
\* in the session iff one of its whole slots satisfied the filter in this call;
\* every surviving region holds a returned address and every returned address
\* lies in a surviving region.
C10_UnrestrictedKeepsRegionIffSlotMatched ==
    Returned("NextScan") =>
        /\ \A k \in DOMAIN pre_regions :
              Survives(k) <=>
                  \E i \in 0..((pre_regions[k].length \div W) - 1) : SlotMatched(k, i)
        /\ \A j \in DOMAIN regions : \E c \in Range(valid_addresses) : InRange(c, regions[j])
        /\ \A c \in Range(valid_addresses) : \E j \in DOMAIN regions : InRange(c, regions[j])

C10_Witness ==
    /\ Returned("NextScan")
    /\ Len(pre_regions) = 2
    /\ Len(regions) = 1
    /\ regions[1].base_address = pre_regions[2].base_address

\* The regions of a session without their bytes.
Extent(s) == [i \in DOMAIN s |-> <<s[i].base_address, s[i].length>>]

InCall == pc \in {"NextScan", "NextScanR", "NextScanR_do", "NextScanR_keep"}

\* C12: a region that a call leaves in the session stores exactly the buffer
\* that call read for it, and while a NextScan runs, the stored bytes of every
\* region it has not yet decided (the previous values its filter receives) are
\* the bytes read by the most recent preceding call, never older ones.
C12_PreviousIsLastRead ==
    /\ (pc = "idle" /\ has_session /\ error = "none"
            /\ call \in {"InitialScan", "NextScan", "NextScanR"}) =>
          \A j \in DOMAIN regions :
              /\ Cardinality({i \in DOMAIN reads :
                                reads[i].base_address = regions[j].base_address}) = 1
              /\ BuffersReadAt(regions[j].base_address) = {regions[j].data}
    /\ InCall =>
          \A idx \in (r + 1)..Len(regions) :
              <<regions[idx].base_address, regions[idx].data>> \in baseline

C12_Witness ==
    /\ Returned("NextScanR")
    /\ \E j \in DOMAIN regions : \E k \in DOMAIN pre_regions :
          /\ regions[j].base_address = pre_regions[k].base_address
          /\ regions[j].data # pre_regions[k].data

HardFailure(rd) == ~rd.ok /\ rd.ec # ERROR_PARTIAL_COPY

\* C13: a read that fails for another reason than a partial copy ends the
\* running call at once with ReadFailure: it is the last read of the call (no
\* retry, no later region read), InitialScan hands out no session and makes no
\* further query, the unrestricted NextScan hands out no address list, and the
\* regions and candidates from the failing region on are left as they were.
C13_HardReadFailureAborts ==
    \A i \in DOMAIN reads :
        HardFailure(reads[i]) =>
            /\ pc = "idle"
            /\ error = "ReadFailure"
            /\ i = Len(reads)
            /\ call = "InitialScan" =>
                  /\ ~has_session
                  /\ regions = <<>>
                  /\ queried[Len(queried)].BaseAddress = reads[i].base_address
            /\ call = "NextScan" => valid_addresses = pre_valid
            /\ call \in {"NextScan", "NextScanR"} =>
                  /\ Len(regions) = Len(pre_regions)
                  /\ \A k \in DOMAIN pre_regions :
                        pre_regions[k].base_address >= reads[i].base_address =>
                            regions[k] = pre_regions[k]
            /\ call = "NextScanR" =>
                  /\ Len(valid_addresses) = Len(pre_valid)
                  /\ \A k \in DOMAIN pre_valid :
                        pre_valid[k] >= reads[i].base_address =>
                            valid_addresses[k] = pre_valid[k]

C13_Witness ==
    /\ pc = "idle"
    /\ error = "ReadFailure"
    /\ call = "NextScan"
    /\ Len(reads) = 2
    /\ HardFailure(reads[2])

\* C14: ReRead returns normally only when ReadProcessMemory delivered exactly W
\* bytes at the bound address, and value then holds them; a hard error ends it
\* with ReadFailure and fewer than W bytes (a partial copy included) with
\* ShortRead; the bound address is the one that was read in every outcome.
C14_ReReadOutcomes ==
    (pc = "idle" /\ call = "ReRead") =>
        /\ Len(reads) = 1
        /\ reads[1].length = W
        /\ object.address = reads[1].base_address
        /\ error = "none" <=> (reads[1].ok /\ reads[1].bytes_read = W)
        /\ error = "none" => object.value = reads[1].data
        /\ HardFailure(reads[1]) => error = "ReadFailure"
        /\ (~HardFailure(reads[1]) /\ reads[1].bytes_read < W) => error = "ShortRead"

C14_Witness ==
    /\ pc = "idle"
    /\ call = "ReRead"
    /\ error = "ShortRead"
    /\ reads[1].ec = ERROR_PARTIAL_COPY
    /\ reads[1].bytes_read = 1

InNextScanR == pc \in {"NextScanR", "NextScanR_do", "NextScanR_keep"}

\* While the restricted NextScan runs: no region was read twice, every region
\* read holds a pre-call candidate, and the region and the candidate under the
\* cursors are still the pre-call ones.
C15_ReadsAreNeeded ==
    InNextScanR =>
        /\ \A i, j \in DOMAIN reads :
              reads[i].base_address = reads[j].base_address => i = j
        /\ \A i \in DOMAIN reads : \E k \in DOMAIN pre_regions :
              /\ pre_regions[k].base_address = reads[i].base_address
              /\ \E c \in Range(pre_valid) : InRange(c, pre_regions[k])
        /\ Len(reads) <= r + 1
        /\ r < Len(regions) => Extent(regions)[r + 1] = Extent(pre_regions)[r + 1]
        /\ a < Len(valid_addresses) => valid_addresses[a + 1] = pre_valid[a + 1]

\* A step inside the restricted NextScan never moves a cursor back, reads at
\* most one region, and evaluating the filter moves the candidate cursor on.
C15_CursorsAdvance ==
    (InNextScanR /\ pc' # "idle") =>
        /\ r' >= r
        /\ a' >= a
        /\ Len(reads') <= Len(reads) + 1
        /\ pc = "NextScanR_do" => a' = a + 1
        /\ Len(reads') = Len(reads) + 1 =>
              reads'[Len(reads')].base_address = regions[r + 1].base_address

\* C15: one restricted NextScan visits and reads each region at most once,
\* reads a region only if it holds a pre-call candidate, evaluates the filter
\* on each candidate at most once, never moves a cursor back, and ends.
C15_RestrictedIsLinear ==
    /\ []C15_ReadsAreNeeded
    /\ [][C15_CursorsAdvance]_vars
    /\ (InNextScanR ~> pc = "idle")

C15_Witness ==
    /\ Returned("NextScanR")
    /\ Len(pre_regions) = 2
    /\ Len(pre_valid) = 1
    /\ Len(reads) = 1
    /\ reads[1].base_address = pre_regions[2].base_address

\* During and after InitialScan: the first query is at address 0, every later
\* query is at the end of the region the query before it returned, only the
\* last query can have failed or reported the end, and the cursor of a running
\* InitialScan is the end of the last region returned.
C16_CursorFollowsRegions ==
    call = "InitialScan" =>
        /\ queried # <<>> => queried[1].BaseAddress = 0
        /\ \A i \in 1..(Len(queried) - 1) :
              /\ queried[i].size # 0
              /\ queried[i].RegionSize > 0
              /\ queried[i + 1].BaseAddress = queried[i].BaseAddress + queried[i].RegionSize
        /\ \A i, j \in DOMAIN queried :
              queried[i].BaseAddress = queried[j].BaseAddress => i = j
        /\ pc = "InitialScan" =>
              address = IF queried = <<>> THEN 0
                        ELSE queried[Len(queried)].BaseAddress
                                + queried[Len(queried)].RegionSize

\* C16: InitialScan starts its cursor at 0, moves it by the size of every
\* region a query returns, kept or not, so each query is made at the end of the
\* region before and no region is queried twice, and InitialScan ends.
C16_CaptureWalksOnce ==
    /\ []C16_CursorFollowsRegions
    /\ (pc = "InitialScan" ~> pc = "idle")

C16_Witness ==
    /\ Returned("InitialScan")
    /\ has_session
    /\ Len(queried) = 4
    /\ ~Reported(queried[1])
    /\ Reported(queried[2])
    /\ queried[3].BaseAddress = 3

\* What one step of the example's Run may do.
C17_RunStep ==
    /\ (pc = "idle" /\ pc' = "NextScanR") => Len(valid_addresses) >= 2
    /\ (pc = "idle" /\ pc' = "NextScan") => call = "InitialScan"
    /\ (pc = "idle" /\ call = "InitialScan" /\ error = "none") =>
          pc' \in {"NextScan", "exit"}
    /\ (ScanReturned /\ Len(valid_addresses) >= 2) => pc' \in {"NextScanR", "exit"}
    /\ (ScanReturned /\ Len(valid_addresses) = 1) =>
          (call' = "ReRead" /\ object'.address = valid_addresses[1])
    /\ (ScanReturned /\ Len(valid_addresses) = 0) => pc' \in {"InitialScan", "exit"}
    /\ call = "ReRead" =>
          /\ call' = "ReRead"
          /\ object'.address = object.address
          /\ pc' = "exit" => error # "none"

\* C17: in the example's Run, after a capture and one unrestricted scan, the
\* restricted scan runs only with 2 or more addresses; with exactly 1 address
\* monitoring of that address starts and from then on nothing but ReRead runs
\* until a read fails; with 0 addresses a new capture starts or Run is left.
C17_RunLoopDiscipline == [][C17_RunStep]_vars

C17_Witness ==
    /\ Monitoring
    /\ regions[1].length = 2 * W
    /\ valid_addresses = <<regions[1].base_address + W>>
    /\ object.address = valid_addresses[1]

\* C18: between calls on a session, every candidate lies in exactly one region
\* of the session, slot-aligned and with a slot index below floor(length / W);
\* so the restricted NextScan evaluates the filter only at indices inside both
\* buffers and leaves its loop only when no candidate remains.
C18_CandidatesStayInsideSession ==
    /\ (pc = "idle" /\ has_session /\ error = "none") =>
          \A c \in Range(valid_addresses) :
              /\ Cardinality({k \in DOMAIN regions : InRange(c, regions[k])}) = 1
              /\ \A k \in DOMAIN regions :
                    InRange(c, regions[k]) =>
                        /\ (c - regions[k].base_address) % W = 0
                        /\ (c - regions[k].base_address) \div W < regions[k].length \div W
    /\ pc = "NextScanR_do" =>
          LET idx == (valid_addresses[a + 1] - regions[r + 1].base_address) \div W
          IN  /\ valid_addresses[a + 1] >= regions[r + 1].base_address
              /\ (idx + 1) * W <= Len(regions[r + 1].data)
              /\ (idx + 1) * W <= Len(new_region.data)
    /\ (pc = "NextScanR" /\ ~InLoop) => a = Len(valid_addresses)

C18_Witness ==
    /\ Returned("NextScanR")
    /\ Len(regions) = 1
    /\ Len(valid_addresses) = 2
    /\ keep_if = "changed"

\* C19: when a NextScan is ended by a read failure, the session still holds
\* every pre-call region exactly once (by base and length), and the candidate
\* list still holds every pre-call address exactly once; only order and the
\* stored bytes may differ.
C19_AbortTruncatesNothing ==
    (pc = "idle" /\ error # "none" /\ call \in {"NextScan", "NextScanR"}) =>
        /\ Len(regions) = Len(pre_regions)
        /\ Range(Extent(regions)) = Range(Extent(pre_regions))
        /\ Len(valid_addresses) = Len(pre_valid)
        /\ Range(valid_addresses) = Range(pre_valid)

C19_Witness ==
    /\ pc = "idle"
    /\ error = "ReadFailure"
    /\ call = "NextScan"
    /\ Len(regions) = 3
    /\ Extent(regions) # Extent(pre_regions)

\* Every buffer the running call read holds the bytes stored before the call
\* for that region: the target's memory is as the preceding call read it.
MemoryUnchanged ==
    \A i \in DOMAIN reads : \E k \in DOMAIN pre_regions :
        /\ pre_regions[k].base_address = reads[i].base_address
        /\ pre_regions[k].data = reads[i].data

\* C20: a restricted NextScan with the equality filter (which looks only at
\* the current value), run directly on what a NextScan with the same filter
\* returned, while every read delivers the bytes that call stored, leaves the
\* candidate list, the regions and their stored bytes as they were.
C20_RestrictedIsIdempotent ==
    (/\ Returned("NextScanR")
     /\ keep_if = "equals"
     /\ preceding \in {<<"NextScan", "equals">>, <<"NextScanR", "equals">>}
     /\ MemoryUnchanged) =>
        /\ valid_addresses = pre_valid
        /\ regions = pre_regions

C20_Witness ==
    /\ Returned("NextScanR")
    /\ keep_if = "equals"
    /\ preceding = <<"NextScanR", "equals">>
    /\ MemoryUnchanged
    /\ Len(reads) = 2
    /\ Len(valid_addresses) = 2

\* The bytes a read of each address of the target delivers.
Images == [0..(AddrLimit - 1) -> Bytes]

\* ReadRegionData on a region of a target whose reads deliver img.
ReadRegionDataFrom(img, memory_region) ==
    [memory_region EXCEPT
        !.data = [k \in 1..memory_region.length |-> img[memory_region.base_address + k - 1]]]

\* The unrestricted NextScan as one function of the session, the filter and
\* the bytes its reads deliver: the loop over regions, then the resize.
RECURSIVE NextScanWhole(_, _, _, _, _, _)
NextScanWhole(rs, f, img, idx, new_size, found) ==
    IF ~(idx < Len(rs))
    THEN [regions |-> Resize(rs, new_size), valid_addresses |-> found]
    ELSE LET old_region == rs[idx + 1]
             fresh == ReadRegionDataFrom(img, [base_address |-> old_region.base_address,
                                               length |-> old_region.length,
                                               data |-> <<>>])
             matched == SlotLoop(0, SlotCount(old_region.length), old_region.data,
                                 fresh.data, fresh.base_address, f, <<>>)
         IN  IF matched # <<>>
             THEN NextScanWhole(SwapToFront([rs EXCEPT ![idx + 1] = MoveAssign(@, fresh)],
                                            new_size, idx),
                                f, img, idx + 1, new_size + 1, found \o matched)
             ELSE NextScanWhole(rs, f, img, idx + 1, new_size, found)

\* The images under which the reads of the call that just ran deliver what
\* they delivered.
SameMemory ==
    {img \in Images :
        \A i \in DOMAIN reads :
            \A k \in 1..reads[i].length : img[reads[i].base_address + k - 1] = reads[i].data[k]}

\* C21: NextScanWhole is what the unrestricted NextScan returns; and for the
\* same pre-call session, filter and target memory, the candidates a
\* restricted NextScan keeps are the pre-call candidates, in their order, that
\* the unrestricted one returns, and every region the restricted one keeps is
\* kept by the unrestricted one with the same bytes.
C21_OverloadsAgree ==
    /\ Returned("NextScan") =>
          \A img \in SameMemory :
              NextScanWhole(pre_regions, keep_if, img, 0, 0, <<>>) =
                  [regions |-> regions, valid_addresses |-> valid_addresses]
    /\ Returned("NextScanR") =>
          \A img \in SameMemory :
              LET whole == NextScanWhole(pre_regions, keep_if, img, 0, 0, <<>>)
                  AlsoReturned(c) == c \in Range(whole.valid_addresses)
              IN  /\ valid_addresses = SelectSeq(pre_valid, AlsoReturned)
                  /\ \A j \in DOMAIN regions : regions[j] \in Range(whole.regions)

C21_Witness ==
    /\ Returned("NextScanR")
    /\ Len(pre_regions) = 2
    /\ Len(pre_valid) = 1
    /\ Len(valid_addresses) = 1
    /\ keep_if = "changed"
    /\ \E img \in SameMemory :
          Len(NextScanWhole(pre_regions, keep_if, img, 0, 0, <<>>).valid_addresses) = 2
====
